---- MODULE Spec2Model ----
(***************************************************************************)
(* State-machine model of the Flask back end in src/app.py: the           *)
(* /generate-solution batch pipeline, /save-data, the two listing routes   *)
(* and /extract, run by concurrent request threads against one MySQL       *)
(* table (extracted_data) through per-request connections opened with      *)
(* autocommit=False.                                                       *)
(*                                                                         *)
(* Text is a sequence of one-character strings, so that str.strip and      *)
(* str.split are computed as Python computes them.                         *)
(***************************************************************************)
EXTENDS Integers, Sequences, FiniteSets, TLC

\* Number of request threads (each serves one request).
NumReqs == 2
\* Longest question text sent to the single request of SpecBatch.
MaxText == 4
MaxPages == 2

Reqs == 1..NumReqs

(***************************************************************************)
(* Python string functions                                                 *)
(***************************************************************************)
\* The characters str.strip() removes that occur in the modelled texts.
Whitespace == {" ", "\n", "\t", "\r"}

RECURSIVE lstrip(_)
lstrip(s) ==
  IF s = <<>> THEN <<>>
  ELSE IF Head(s) \in Whitespace THEN lstrip(Tail(s)) ELSE s

RECURSIVE rstrip(_)
rstrip(s) ==
  IF s = <<>> THEN <<>>
  ELSE IF s[Len(s)] \in Whitespace THEN rstrip(SubSeq(s, 1, Len(s) - 1)) ELSE s

\* str.strip()
strip(s) == rstrip(lstrip(s))

\* str.split(sep) for a one-character separator: "" gives [""], "a\n" gives ["a", ""].
RECURSIVE split(_, _)
split(s, sep) ==
  IF \A i \in 1..Len(s) : s[i] # sep THEN <<s>>
  ELSE LET i == CHOOSE k \in 1..Len(s) : s[k] = sep /\ \A j \in 1..(k - 1) : s[j] # sep
       IN  <<SubSeq(s, 1, i - 1)>> \o split(SubSeq(s, i + 1, Len(s)), sep)

\* [q.strip() for q in xs]
StripEach(xs) == [i \in 1..Len(xs) |-> strip(xs[i])]

\* xs without the later repetitions of an element
RECURSIVE DropRepeats(_)
DropRepeats(xs) ==
  IF xs = <<>> THEN <<>>
  ELSE LET init == DropRepeats(SubSeq(xs, 1, Len(xs) - 1))
           last == xs[Len(xs)]
       IN  IF \E i \in 1..Len(init) : init[i] = last THEN init ELSE Append(init, last)

\* Mutant of SplitQuestions: a question text that occurs twice is kept once.
SplitQuestionsDedup(raw) ==
  LET segs == split(strip(raw), "\n")
      kept == SelectSeq(segs, LAMBDA q : strip(q) # <<>>)
  IN  DropRepeats(StripEach(kept))

\* Mutant of SplitQuestions: blank segments are dropped, the others are not
\* trimmed.
SplitQuestionsNoStrip(raw) ==
  LET segs == split(strip(raw), "\n")
  IN  SelectSeq(segs, LAMBDA q : strip(q) # <<>>)

\* app.py:129  [q.strip() for q in raw_text.strip().split('\n') if q.strip()]
SplitQuestions(raw) ==
  LET segs == split(strip(raw), "\n")
      kept == SelectSeq(segs, LAMBDA q : strip(q) # <<>>)
  IN  StripEach(kept)


(***************************************************************************)
(* JSON values of a request body, and table cells                          *)
(***************************************************************************)
Missing == [tag |-> "missing", val |-> <<>>]   \* key absent from the body
Null    == [tag |-> "null", val |-> <<>>]      \* JSON null / Python None / SQL NULL
Str(s)  == [tag |-> "str", val |-> s]
Num(n)  == [tag |-> "num", val |-> n]          \* a JSON number, by its digits

\* dict.get(key, default)
Get(v, default) == IF v.tag = "missing" THEN default ELSE v

\* dict.get(key): None when the key is absent
GetOrNone(v) == Get(v, Null)

\* Python truth value of None, of a str and of a number
Truthy(v) ==
  \/ v.tag = "str" /\ v.val # <<>>
  \/ v.tag = "num" /\ v.val # <<"0">>

\* raw_text.strip() raises AttributeError on a value that is no str
StripRaises(v) == v.tag = "num"

\* Mutant of EmptyQuestionText: the whitespace test is left out.
EmptyQuestionTextNoStrip(raw_text) == ~Truthy(raw_text)

\* app.py:126  not raw_text or not raw_text.strip(), for None and for a str
EmptyQuestionText(raw_text) == ~Truthy(raw_text) \/ strip(raw_text.val) = <<>>

\* app.py:204  not question
QuestionNotGiven(question) == ~Truthy(question)

(***************************************************************************)
(* Replies of the generative-text endpoint to requests.post                *)
(***************************************************************************)
\* kind names the case; status is the HTTP status (0: no reply arrived);
\* body is the text part of a well-shaped reply, else the document's content.
Reply(kind, status, body) == [kind |-> kind, status |-> status, body |-> body]

TransportFailure == Reply("transport", 0, <<>>)      \* connection error, timeout
ErrorStatus      == Reply("status", 500, <<"e">>)    \* non-success HTTP status
NotJson          == Reply("notjson", 200, <<"<">>)   \* 200 whose body is not JSON
Mismatch         == Reply("mismatch", 200, <<"e", " ">>)  \* JSON of another shape
Shaped(prompt)   ==
  Reply("shaped", 200, IF prompt = "solution" THEN <<"s", " ">> ELSE <<" ", "h">>)

\* The two prompts of app.py:138-148.
Prompts == {"solution", "hint"}

\* Every kind of reply, for each prompt.
GeminiReplies ==
  [prompt \in Prompts |->
     {TransportFailure, ErrorStatus, NotJson, Mismatch, Shaped(prompt)}]

\* app.py:151-153 / 161-163: requests.post raises on a transport failure or
\* timeout, raise_for_status raises on a non-success status, and .json()
\* raises on a body that is not JSON.
RequestRaises(r) == r.kind \in {"transport", "status", "notjson"}

\* str(sol_json): the Python rendering of the parsed document
str_json(r) == <<"{">> \o r.body \o <<"}">>

\* app.py:154-158 / 164-168: the first candidate's first text part, stripped,
\* or the rendered document when the subscripting raises.
ExtractText(r) == IF r.kind = "shaped" THEN strip(r.body) ELSE str_json(r)

(***************************************************************************)
(* State                                                                   *)
(***************************************************************************)
VARIABLES
  store,      \* committed rows of extracted_data
  nextId,     \* the table's AUTO_INCREMENT counter
  pc,         \* position of each request thread in its handler
  request,    \* the request each thread serves
  questions,  \* generate_solution: questions
  results,    \* generate_solution: results
  qi,         \* generate_solution: index of q in the for loop
  sol_text,   \* generate_solution: sol_text
  hint_text,  \* generate_solution: hint_text
  conn,       \* each thread's connection: "none", "open" or "closed"
  tx,         \* the connection's transaction: "none", "open" or "committed"
  staged,     \* rows inserted on the connection and not committed
  response,   \* the response returned by the handler
  log         \* history of the thread's external calls and store statements

vars == <<store, nextId, pc, request, questions, results, qi, sol_text,
          hint_text, conn, tx, staged, response, log>>

NoFile     == [present |-> FALSE, filename |-> <<>>, pages |-> <<>>, readable |-> FALSE]
NoRequest  == [route |-> "none", question |-> Missing, solution |-> Missing,
               hint |-> Missing, file |-> NoFile]
NoResponse == [code |-> 0, status |-> "absent", keys |-> {}, data |-> <<>>]

\* jsonify(...) with its status code; data is the value of the "data" key
\* (of the "text" key for /extract, the whole array for /fetch-data)
Response(code, status, keys, data) ==
  [code |-> code, status |-> status, keys |-> keys, data |-> data]

Init ==
  /\ store = {}
  /\ nextId = 1
  /\ pc = [p \in Reqs |-> "idle"]
  /\ request = [p \in Reqs |-> NoRequest]
  /\ questions = [p \in Reqs |-> <<>>]
  /\ results = [p \in Reqs |-> <<>>]
  /\ qi = [p \in Reqs |-> 0]
  /\ sol_text = [p \in Reqs |-> <<>>]
  /\ hint_text = [p \in Reqs |-> <<>>]
  /\ conn = [p \in Reqs |-> "none"]
  /\ tx = [p \in Reqs |-> "none"]
  /\ staged = [p \in Reqs |-> <<>>]
  /\ response = [p \in Reqs |-> NoResponse]
  /\ log = [p \in Reqs |-> <<>>]

\* The handler returns: its locals go away, the response goes out.
Return(p, resp) ==
  /\ pc' = [pc EXCEPT ![p] = "done"]
  /\ response' = [response EXCEPT ![p] = resp]
  /\ questions' = [questions EXCEPT ![p] = <<>>]
  /\ results' = [results EXCEPT ![p] = <<>>]
  /\ qi' = [qi EXCEPT ![p] = 0]
  /\ sol_text' = [sol_text EXCEPT ![p] = <<>>]
  /\ hint_text' = [hint_text EXCEPT ![p] = <<>>]

Goto(p, label) == pc' = [pc EXCEPT ![p] = label]

\* History: ev is the call or statement, q the question's ordinal (0: none),
\* ok whether it returned without raising, kind the reply's kind.
Event(p, ev, q, ok, kind) ==
  log' = [log EXCEPT ![p] = Append(@, [ev |-> ev, q |-> q, ok |-> ok, kind |-> kind])]

\* app.py:127
EmptyQuestionError == Response(400, "absent", {"error"}, <<>>)
\* An exception that leaves the handler: Flask answers 500 with its own page.
UnhandledError == Response(500, "absent", {}, <<>>)
\* app.py:188-190  except requests.exceptions.RequestException
GeminiError == Response(500, "error", {"status", "message", "details"}, <<>>)
\* app.py:191-193, 217-218, 231-232  except Exception
ServerError == Response(500, "error", {"status", "message"}, <<>>)

(***************************************************************************)
(* The store: mysql.connector with autocommit=False (app.py:58-66)         *)
(***************************************************************************)
\* Mutant of get_connection: nothing is connected until a statement is sent.
get_connection_lazy(p, ok) ==
  /\ conn' = conn
  /\ tx' = tx

\* mysql.connector.connect either returns a connection, on which the first
\* statement opens a transaction, or raises.
get_connection(p, ok) ==
  /\ conn' = [conn EXCEPT ![p] = IF ok THEN "open" ELSE @]
  /\ tx' = [tx EXCEPT ![p] = IF ok THEN "open" ELSE @]

\* A row as the INSERT stages it; req records the inserting request and is
\* not a column of the table.
\* Mutant of Row: the parameters of the INSERT in the order question, hint,
\* solution.
RowSwapped(p, id, q, s, h) ==
  [id |-> id, question |-> q, solution |-> h, hint |-> s, req |-> p]

\* A row of extracted_data; req records the request that inserted it.
Row(p, id, q, s, h) == [id |-> id, question |-> q, solution |-> s, hint |-> h, req |-> p]

\* Mutant of execute_insert: the connection autocommits each statement.
execute_insert_autocommit(p, q, s, h) ==
  /\ store' = store \cup {Row(p, nextId, q, s, h)}
  /\ nextId' = nextId + 1
  /\ staged' = staged

\* cursor.execute(INSERT ...): the row takes the next AUTO_INCREMENT id and
\* is visible on this connection only until the commit.
execute_insert(p, q, s, h) ==
  /\ staged' = [staged EXCEPT ![p] = Append(@, Row(p, nextId, q, s, h))]
  /\ nextId' = nextId + 1
  /\ store' = store

\* Mutant of commit_and_close: the requests share one connection, so a
\* commit makes the uncommitted rows of every request durable.
commit_and_close_shared(p) ==
  /\ store' = store \cup UNION {{staged[o][i] : i \in 1..Len(staged[o])} : o \in Reqs}
  /\ staged' = [o \in Reqs |-> <<>>]
  /\ tx' = [tx EXCEPT ![p] = "committed"]
  /\ conn' = [conn EXCEPT ![p] = "closed"]

\* Mutant of commit_and_close: the table is emptied before the request's
\* rows are written.
commit_and_close_replace(p) ==
  /\ store' = {staged[p][i] : i \in 1..Len(staged[p])}
  /\ staged' = [staged EXCEPT ![p] = <<>>]
  /\ tx' = [tx EXCEPT ![p] = "committed"]
  /\ conn' = [conn EXCEPT ![p] = "closed"]

\* conn.commit(), cursor.close(), conn.close()
commit_and_close(p) ==
  /\ store' = store \cup {staged[p][i] : i \in 1..Len(staged[p])}
  /\ staged' = [staged EXCEPT ![p] = <<>>]
  /\ tx' = [tx EXCEPT ![p] = "committed"]
  /\ conn' = [conn EXCEPT ![p] = "closed"]

\* SELECT ... ORDER BY id ASC on a fresh connection: the committed rows.
\* Mutant of OrderById: ORDER BY id DESC.
RECURSIVE OrderByIdDesc(_)
OrderByIdDesc(rows) ==
  IF rows = {} THEN <<>>
  ELSE LET first == CHOOSE r \in rows : \A o \in rows : r.id >= o.id
       IN  <<[id |-> first.id, question |-> first.question,
              solution |-> first.solution, hint |-> first.hint]>>
           \o OrderByIdDesc(rows \ {first})

\* SELECT id, question, solution, hint ... ORDER BY id ASC (app.py:226, 240)
RECURSIVE OrderById(_)
OrderById(rows) ==
  IF rows = {} THEN <<>>
  ELSE LET first == CHOOSE r \in rows : \A o \in rows : r.id <= o.id
       IN  <<[id |-> first.id, question |-> first.question,
              solution |-> first.solution, hint |-> first.hint]>>
           \o OrderById(rows \ {first})

(***************************************************************************)
(* POST /generate-solution  (app.py:121-193)                               *)
(***************************************************************************)
\* app.py:123-130: read the body, reject an empty text, split it.
generate_solution_begin(p, inputs) ==
  /\ pc[p] = "idle"
  /\ \E v \in inputs :
       LET raw_text == Get(v, Str(<<>>)) IN
       /\ request' = [request EXCEPT ![p] = [NoRequest EXCEPT !.route = "generate", !.question = v]]
       /\ IF Truthy(raw_text) /\ StripRaises(raw_text)
          THEN Return(p, UnhandledError)
          ELSE IF EmptyQuestionText(raw_text)
          THEN Return(p, EmptyQuestionError)
          ELSE /\ questions' = [questions EXCEPT ![p] = SplitQuestions(raw_text.val)]
               /\ results' = [results EXCEPT ![p] = <<>>]
               /\ Goto(p, "g_connect")
               /\ UNCHANGED <<qi, sol_text, hint_text, response>>
  /\ UNCHANGED <<store, nextId, conn, tx, staged, log>>

\* Mutant of LoopLabel: the loop is left for the commit after the first question.
LoopLabelEarly(qs, i) == IF i <= 1 /\ i <= Len(qs) THEN "g_solution" ELSE "g_commit"

\* The for statement at app.py:136: the next question, or the commit.
LoopLabel(qs, i) == IF i <= Len(qs) THEN "g_solution" ELSE "g_commit"

\* app.py:133-134
generate_solution_connect(p) ==
  /\ pc[p] = "g_connect"
  /\ \E ok \in BOOLEAN :
       /\ get_connection(p, ok)
       /\ Event(p, "connect", 0, ok, "-")
       /\ IF ok
          THEN /\ qi' = [qi EXCEPT ![p] = 1]
               /\ Goto(p, LoopLabel(questions[p], 1))
               /\ UNCHANGED <<questions, results, sol_text, hint_text, response>>
          ELSE Return(p, ServerError)
  /\ UNCHANGED <<store, nextId, request, staged>>

\* The except clause that catches what a generation call raised: .json()
\* raises a RequestException subclass in current releases of requests and a
\* plain ValueError in older ones.
GenerationFailure(r) ==
  IF r.kind = "notjson" THEN {GeminiError, ServerError} ELSE {GeminiError}

\* Mutant of generate_solution_solution: the row is inserted as soon as the
\* solution is there, without a hint call.
generate_solution_solution_only(p, replies) ==
  /\ pc[p] = "g_solution"
  /\ \E r \in replies :
       /\ Event(p, "solution", qi[p], ~RequestRaises(r), r.kind)
       /\ IF RequestRaises(r)
          THEN \E resp \in GenerationFailure(r) : Return(p, resp)
          ELSE /\ sol_text' = [sol_text EXCEPT ![p] = ExtractText(r)]
               /\ Goto(p, "g_insert")
               /\ UNCHANGED <<questions, results, qi, hint_text, response>>
  /\ UNCHANGED <<store, nextId, request, conn, tx, staged>>

\* app.py:150-158
generate_solution_solution(p, replies) ==
  /\ pc[p] = "g_solution"
  /\ \E r \in replies :
       /\ Event(p, "solution", qi[p], ~RequestRaises(r), r.kind)
       /\ IF RequestRaises(r)
          THEN \E resp \in GenerationFailure(r) : Return(p, resp)
          ELSE /\ sol_text' = [sol_text EXCEPT ![p] = ExtractText(r)]
               /\ Goto(p, "g_hint")
               /\ UNCHANGED <<questions, results, qi, hint_text, response>>
  /\ UNCHANGED <<store, nextId, request, conn, tx, staged>>

\* Mutant of generate_solution_hint: a failed hint call is repeated once.
generate_solution_hint_retry(p, replies) ==
  /\ pc[p] = "g_hint"
  /\ \E r \in replies :
       /\ Event(p, "hint", qi[p], ~RequestRaises(r), r.kind)
       /\ IF RequestRaises(r)
          THEN IF log[p][Len(log[p])].ev = "hint"
               THEN \E resp \in GenerationFailure(r) : Return(p, resp)
               ELSE UNCHANGED <<pc, questions, results, qi, sol_text, hint_text, response>>
          ELSE /\ hint_text' = [hint_text EXCEPT ![p] = ExtractText(r)]
               /\ Goto(p, "g_insert")
               /\ UNCHANGED <<questions, results, qi, sol_text, response>>
  /\ UNCHANGED <<store, nextId, request, conn, tx, staged>>

\* app.py:160-168
generate_solution_hint(p, replies) ==
  /\ pc[p] = "g_hint"
  /\ \E r \in replies :
       /\ Event(p, "hint", qi[p], ~RequestRaises(r), r.kind)
       /\ IF RequestRaises(r)
          THEN \E resp \in GenerationFailure(r) : Return(p, resp)
          ELSE /\ hint_text' = [hint_text EXCEPT ![p] = ExtractText(r)]
               /\ Goto(p, "g_insert")
               /\ UNCHANGED <<questions, results, qi, sol_text, response>>
  /\ UNCHANGED <<store, nextId, request, conn, tx, staged>>

\* app.py:170-180: stage the insert, append to results, next iteration.
generate_solution_insert(p) ==
  /\ pc[p] = "g_insert"
  /\ \E ok \in BOOLEAN :
       LET q == questions[p][qi[p]] IN
       /\ Event(p, "insert", qi[p], ok, "-")
       /\ IF ok
          THEN /\ execute_insert(p, Str(q), Str(sol_text[p]), Str(hint_text[p]))
               /\ results' = [results EXCEPT ![p] =
                    Append(@, [question |-> q, solution |-> sol_text[p], hint |-> hint_text[p]])]
               /\ qi' = [qi EXCEPT ![p] = @ + 1]
               /\ Goto(p, LoopLabel(questions[p], qi[p] + 1))
               /\ UNCHANGED <<questions, sol_text, hint_text, response>>
          ELSE /\ Return(p, ServerError)
               /\ UNCHANGED <<store, staged, nextId>>
  /\ UNCHANGED <<request, conn, tx>>

\* app.py:182-186: commit, close, answer; a failing commit goes to app.py:191.
generate_solution_commit(p) ==
  /\ pc[p] = "g_commit"
  /\ \E ok \in BOOLEAN :
       /\ Event(p, "commit", 0, ok, "-")
       /\ IF ok
          THEN /\ commit_and_close(p)
               /\ Return(p, Response(200, "success", {"status", "data"}, results[p]))
          ELSE /\ Return(p, ServerError)
               /\ UNCHANGED <<store, staged, tx, conn>>
  /\ UNCHANGED <<nextId, request>>

generate_solution(p, inputs, replies) ==
  \/ generate_solution_begin(p, inputs)
  \/ generate_solution_connect(p)
  \/ generate_solution_solution(p, replies["solution"])
  \/ generate_solution_hint(p, replies["hint"])
  \/ generate_solution_insert(p)
  \/ generate_solution_commit(p)

(***************************************************************************)
(* POST /save-data  (app.py:196-218)                                       *)
(***************************************************************************)
\* app.py:199-205
save_data_begin(p, inputs) ==
  /\ pc[p] = "idle"
  /\ \E b \in inputs :
       /\ request' = [request EXCEPT ![p] = [NoRequest EXCEPT !.route = "save",
            !.question = b.question, !.solution = b.solution, !.hint = b.hint]]
       /\ IF QuestionNotGiven(GetOrNone(b.question))
          THEN Return(p, Response(400, "error", {"status", "message"}, <<>>))
          ELSE /\ Goto(p, "s_connect")
               /\ UNCHANGED <<questions, results, qi, sol_text, hint_text, response>>
  /\ UNCHANGED <<store, nextId, conn, tx, staged, log>>

\* app.py:207-208
save_data_connect(p) ==
  /\ pc[p] = "s_connect"
  /\ \E ok \in BOOLEAN :
       /\ get_connection(p, ok)
       /\ Event(p, "connect", 0, ok, "-")
       /\ IF ok
          THEN /\ Goto(p, "s_insert")
               /\ UNCHANGED <<questions, results, qi, sol_text, hint_text, response>>
          ELSE Return(p, ServerError)
  /\ UNCHANGED <<store, nextId, request, staged>>

\* Mutant of save_data_insert: an omitted hint is stored as NULL.
save_data_insert_null_hint(p) ==
  /\ pc[p] = "s_insert"
  /\ \E ok \in BOOLEAN :
       /\ Event(p, "insert", 0, ok, "-")
       /\ IF ok
          THEN /\ execute_insert(p, GetOrNone(request[p].question),
                                 GetOrNone(request[p].solution),
                                 GetOrNone(request[p].hint))
               /\ Goto(p, "s_commit")
               /\ UNCHANGED <<questions, results, qi, sol_text, hint_text, response>>
          ELSE /\ Return(p, ServerError)
               /\ UNCHANGED <<store, staged, nextId>>
  /\ UNCHANGED <<request, conn, tx>>

\* app.py:209-210
save_data_insert(p) ==
  /\ pc[p] = "s_insert"
  /\ \E ok \in BOOLEAN :
       /\ Event(p, "insert", 0, ok, "-")
       /\ IF ok
          THEN /\ execute_insert(p, GetOrNone(request[p].question),
                                 GetOrNone(request[p].solution),
                                 Get(request[p].hint, Str(<<>>)))
               /\ Goto(p, "s_commit")
               /\ UNCHANGED <<questions, results, qi, sol_text, hint_text, response>>
          ELSE /\ Return(p, ServerError)
               /\ UNCHANGED <<store, staged, nextId>>
  /\ UNCHANGED <<request, conn, tx>>

\* app.py:211-215
save_data_commit(p) ==
  /\ pc[p] = "s_commit"
  /\ \E ok \in BOOLEAN :
       /\ Event(p, "commit", 0, ok, "-")
       /\ IF ok
          THEN /\ commit_and_close(p)
               /\ Return(p, Response(200, "success", {"status", "message"}, <<>>))
          ELSE /\ Return(p, ServerError)
               /\ UNCHANGED <<store, staged, tx, conn>>
  /\ UNCHANGED <<nextId, request>>

save_data(p, inputs) ==
  \/ save_data_begin(p, inputs)
  \/ save_data_connect(p)
  \/ save_data_insert(p)
  \/ save_data_commit(p)

(***************************************************************************)
(* GET /get-solutions and GET /fetch-data  (app.py:221-246)                *)
(***************************************************************************)
\* xs back to front
Reverse(xs) == [i \in 1..Len(xs) |-> xs[Len(xs) + 1 - i]]

\* Mutant of ListRecords: /fetch-data selects without ORDER BY id ASC and
\* gets the rows latest first.
ListRecordsUnordered(p, route, stage) ==
  /\ pc[p] = "idle"
  /\ request' = [request EXCEPT ![p] = [NoRequest EXCEPT !.route = route]]
  /\ log' = [log EXCEPT ![p] =
       IF stage = "connect"
       THEN <<[ev |-> "connect", q |-> 0, ok |-> FALSE, kind |-> "-"]>>
       ELSE <<[ev |-> "connect", q |-> 0, ok |-> TRUE, kind |-> "-"],
              [ev |-> "select", q |-> 0, ok |-> stage = "done", kind |-> "-"]>>]
  /\ conn' = [conn EXCEPT ![p] =
       CASE stage = "connect" -> "none" [] stage = "select" -> "open" [] OTHER -> "closed"]
  /\ tx' = [tx EXCEPT ![p] = IF stage = "select" THEN "open" ELSE "none"]
  /\ Return(p, IF stage = "done"
               THEN IF route = "get_solutions"
                    THEN Response(200, "success", {"status", "data"}, OrderById(store))
                    ELSE Response(200, "absent", {}, Reverse(OrderById(store)))
               ELSE IF route = "get_solutions"
                    THEN ServerError
                    ELSE Response(500, "absent", {"error"}, <<>>))
  /\ UNCHANGED <<store, nextId, staged>>

\* Both handlers: connect, select, close, answer.  stage names how far the
\* handler gets: "connect" and "select" name the call that raises.
ListRecords(p, route, stage) ==
  /\ pc[p] = "idle"
  /\ request' = [request EXCEPT ![p] = [NoRequest EXCEPT !.route = route]]
  /\ log' = [log EXCEPT ![p] =
       IF stage = "connect"
       THEN <<[ev |-> "connect", q |-> 0, ok |-> FALSE, kind |-> "-"]>>
       ELSE <<[ev |-> "connect", q |-> 0, ok |-> TRUE, kind |-> "-"],
              [ev |-> "select", q |-> 0, ok |-> stage = "done", kind |-> "-"]>>]
  /\ conn' = [conn EXCEPT ![p] =
       CASE stage = "connect" -> "none" [] stage = "select" -> "open" [] OTHER -> "closed"]
  /\ tx' = [tx EXCEPT ![p] = IF stage = "select" THEN "open" ELSE "none"]
  /\ Return(p, IF stage = "done"
               THEN IF route = "get_solutions"
                    THEN Response(200, "success", {"status", "data"}, OrderById(store))
                    ELSE Response(200, "absent", {}, OrderById(store))
               ELSE IF route = "get_solutions"
                    THEN ServerError
                    ELSE Response(500, "absent", {"error"}, <<>>))
  /\ UNCHANGED <<store, nextId, staged>>

\* app.py:221-232
get_solutions(p) == \E stage \in {"connect", "select", "done"} : ListRecords(p, "get_solutions", stage)

\* app.py:235-246
fetch_data(p) == \E stage \in {"connect", "select", "done"} : ListRecords(p, "fetch_data", stage)

(***************************************************************************)
(* POST /extract  (app.py:93-118)                                          *)
(***************************************************************************)
\* str.lower() on the letters that occur in the modelled file names
LowerChar(c) == CASE c = "P" -> "p" [] c = "D" -> "d" [] c = "F" -> "f" [] OTHER -> c

lower(s) == [i \in 1..Len(s) |-> LowerChar(s[i])]

\* str.endswith(suffix)
EndsWith(s, suffix) ==
  /\ Len(s) >= Len(suffix)
  /\ SubSeq(s, Len(s) - Len(suffix) + 1, Len(s)) = suffix

\* text += page.get_text() for each page
RECURSIVE Concat(_)
Concat(pages) == IF pages = <<>> THEN <<>> ELSE Head(pages) \o Concat(Tail(pages))

\* Mutant of ExtractedText: every page is stripped before it is appended.
ExtractedTextPageStrip(file) ==
  IF EndsWith(lower(file.filename), <<".", "p", "d", "f">>)
  THEN strip(Concat(StripEach(file.pages)))
  ELSE strip(Head(file.pages))

\* app.py:99-116: the stripped text of the PDF's pages, or of the image's
\* recognised text (held as the single page of an image file).
ExtractedText(file) ==
  IF EndsWith(lower(file.filename), <<".", "p", "d", "f">>)
  THEN strip(Concat(file.pages))
  ELSE strip(Head(file.pages))

extract_text(p, files) ==
  /\ pc[p] = "idle"
  /\ \E file \in files :
       /\ request' = [request EXCEPT ![p] = [NoRequest EXCEPT !.route = "extract", !.file = file]]
       /\ IF ~file.present
          THEN /\ Return(p, Response(400, "absent", {"error"}, <<>>))
               /\ UNCHANGED log
          ELSE /\ Event(p, "extract", 0, file.readable, "-")
               /\ IF file.readable
                  THEN Return(p, Response(200, "absent", {"text"}, ExtractedText(file)))
                  ELSE Return(p, Response(500, "absent", {"error"}, <<>>))
  /\ UNCHANGED <<store, nextId, conn, tx, staged>>

(***************************************************************************)
(* Spec: NumReqs request threads, interleaved at every call               *)
(***************************************************************************)
\* Question values of the bodies sent to /generate-solution.
GenerateInputs ==
  { Missing, Null, Num(<<"5">>), Str(<<>>), Str(<<" ", "\n">>),
    Str(<<" ", "a", "\n", "\n", "b", " ", "\n", "a">>) }

\* In Spec a generation call fails on the reply's status or returns a
\* well-shaped reply; SpecBatch has every kind of reply.
PlainReplies == [prompt \in Prompts |-> {ErrorStatus, Shaped(prompt)}]

\* Bodies sent to /save-data.
SaveInputs ==
  { [question |-> q, solution |-> Str(<<"s">>), hint |-> Missing] :
      q \in {Missing, Null, Str(<<>>), Str(<<" ">>)} }
  \cup { [question |-> Str(<<"a">>), solution |-> Str(<<"s">>), hint |-> Str(<<"h">>)] }

\* Uploads sent to /extract.
File(name, pages, readable) ==
  [present |-> TRUE, filename |-> name, pages |-> pages, readable |-> readable]

ExtractFiles ==
  { NoFile,
    File(<<"x", ".", "P", "d", "F">>, << <<" ", "A">>, <<"B", " ">> >>, TRUE),
    File(<<"x", ".", "p", "d", "f">>, <<>>, FALSE),
    File(<<"x", ".", "p", "n", "g">>, << <<"A", "\n">> >>, TRUE),
    File(<<>>, <<>>, FALSE) }

\* What thread p can do next.
Handler(p) ==
  \/ generate_solution(p, GenerateInputs, PlainReplies)
  \/ save_data(p, SaveInputs)
  \/ get_solutions(p)
  \/ fetch_data(p)
  \/ extract_text(p, ExtractFiles)

Next == \E p \in Reqs : Handler(p)

Spec == Init /\ [][Next]_vars

(***************************************************************************)
(* SpecBatch: one /generate-solution request, every text of up to MaxText  *)
(* characters, every kind of reply                                         *)
(***************************************************************************)
Alphabet == {"a", "b", " ", "\n"}

Texts(n) == UNION {[1..k -> Alphabet] : k \in 0..n}

\* The text of spec.md section 8: "Q1\n\nQ2\n  \nQ3"
ExampleText ==
  <<"Q", "1", "\n", "\n", "Q", "2", "\n", " ", " ", "\n", "Q", "3">>

BatchInputs == {Missing, Null, Num(<<"0">>), Num(<<"5">>)} \cup {Str(t) : t \in Texts(MaxText) \cup {ExampleText}}

NextBatch == generate_solution(1, BatchInputs, GeminiReplies)

SpecBatch == Init /\ [][NextBatch]_vars

(***************************************************************************)
(* SpecStore: /save-data and the two listings on a table that may already  *)
(* hold rows of earlier runs                                               *)
(***************************************************************************)
\* No thread has a request yet.
IdleThreads ==
  /\ pc = [p \in Reqs |-> "idle"]
  /\ request = [p \in Reqs |-> NoRequest]
  /\ questions = [p \in Reqs |-> <<>>]
  /\ results = [p \in Reqs |-> <<>>]
  /\ qi = [p \in Reqs |-> 0]
  /\ sol_text = [p \in Reqs |-> <<>>]
  /\ hint_text = [p \in Reqs |-> <<>>]
  /\ conn = [p \in Reqs |-> "none"]
  /\ tx = [p \in Reqs |-> "none"]
  /\ staged = [p \in Reqs |-> <<>>]
  /\ response = [p \in Reqs |-> NoResponse]
  /\ log = [p \in Reqs |-> <<>>]

\* Contents of extracted_data when the server starts: empty, or two rows
\* (request 0) whose ids have a gap left by an uncommitted insert.
EarlierRows ==
  { Row(0, 1, Str(<<"a">>), Str(<<"s">>), Str(<<>>)),
    Row(0, 3, Str(<<"b">>), Null, Str(<<"h">>)) }

InitialStores == {{}, EarlierRows}

\* The AUTO_INCREMENT counter of a table with these rows and that gap.
CounterAfter(rows) == IF rows = {} THEN 1 ELSE 4

InitStore ==
  /\ store \in InitialStores
  /\ nextId = CounterAfter(store)
  /\ IdleThreads

\* Bodies sent to /save-data in SpecStore.
StoreSaveInputs ==
  { [question |-> q, solution |-> s, hint |-> h] :
      q \in {Null, Str(<<"a">>)},
      s \in {Missing, Str(<<"s">>)},
      h \in {Missing, Str(<<"h">>)} }

NextStore ==
  \E p \in Reqs :
    \/ save_data(p, StoreSaveInputs)
    \/ get_solutions(p)
    \/ fetch_data(p)

SpecStore == InitStore /\ [][NextStore]_vars

(***************************************************************************)
(* SpecExtract: one /extract request with any upload of up to MaxPages     *)
(* pages, on a table that may already hold rows                            *)
(***************************************************************************)
\* What get_text() returns for a page, or the OCR for an image.
PageTexts ==
  { <<"A">>, <<"B">>, <<" ", "A">>, <<"B", " ">>, <<"\n">> }

PageSeqs(n) == UNION {[1..k -> PageTexts] : k \in 0..n}

\* x.pdf in every letter case.
PdfNames ==
  { <<"x", ".", a, b, c>> : a \in {"p", "P"}, b \in {"d", "D"}, c \in {"f", "F"} }

\* Names that do not end in .pdf.
ImageNames == { <<"x", ".", "p", "n", "g">>, <<"x", "p", "d", "f">>, <<"p", "d", "f">> }

Uploads ==
  {NoFile}
    \cup { File(n, pages, TRUE) : n \in PdfNames, pages \in PageSeqs(MaxPages) }
    \cup { File(n, <<t>>, TRUE) : n \in ImageNames, t \in PageTexts }
    \cup { File(n, <<>>, FALSE) : n \in PdfNames \cup ImageNames }

NextExtract == extract_text(1, Uploads)

SpecExtract == InitStore /\ [][NextExtract]_vars

(***************************************************************************)
(* Vocabulary of the properties                                            *)
(***************************************************************************)
IsGenerate(p) == request[p].route = "generate"
IsSave(p)     == request[p].route = "save"
IsExtract(p)  == request[p].route = "extract"

Returned(p)  == pc[p] = "done"
Succeeded(p) == Returned(p) /\ response[p].status = "success"
Failed(p)    == Returned(p) /\ response[p].status # "success"

\* The committed rows that request p inserted.
RowsOf(p) == {r \in store : r.req = p}

\* The question text of p's body, "" when it is absent or null.
RawText(p) == IF request[p].question.tag = "str" THEN request[p].question.val ELSE <<>>

\* A question value that is missing, null, empty or whitespace-only.
BlankQuestion(v) ==
  \/ v.tag \in {"missing", "null"}
  \/ v.tag = "str" /\ \A i \in 1..Len(v.val) : v.val[i] \in Whitespace

\* The lines of a text, read character by character.
RECURSIVE LinesFrom(_, _)
LinesFrom(s, cur) ==
  IF s = <<>> THEN <<cur>>
  ELSE IF Head(s) = "\n" THEN <<cur>> \o LinesFrom(Tail(s), <<>>)
       ELSE LinesFrom(Tail(s), Append(cur, Head(s)))

\* A line from its first to its last non-whitespace character.
Trimmed(line) ==
  LET inked == {i \in 1..Len(line) : line[i] \notin Whitespace}
  IN  IF inked = {} THEN <<>>
      ELSE SubSeq(line, CHOOSE i \in inked : \A j \in inked : i <= j,
                        CHOOSE i \in inked : \A j \in inked : i >= j)

\* The non-blank lines of a text, trimmed, in order.
NonBlankLines(s) ==
  LET lines == LinesFrom(s, <<>>)
  IN  SelectSeq([i \in 1..Len(lines) |-> Trimmed(lines[i])], LAMBDA l : l # <<>>)

\* The events of p's history that are calls of ev for question q.
Calls(p, ev, q) == {i \in 1..Len(log[p]) : log[p][i].ev = ev /\ log[p][i].q = q}

GenerationCalls(p) == {i \in 1..Len(log[p]) : log[p][i].ev \in {"solution", "hint"}}

(***************************************************************************)
(* C1  Batch atomicity: in every reachable state the committed rows of a   *)
(* /generate-solution batch are all N of them or none, and a batch that    *)
(* ended in failure (at a solution call, a hint call, an insert or the     *)
(* commit) has no committed row, whatever it had staged before.            *)
(***************************************************************************)
BatchAtomicity ==
  \A p \in Reqs :
    IsGenerate(p) =>
      /\ \/ RowsOf(p) = {}
         \/ Cardinality(RowsOf(p)) = Len(NonBlankLines(RawText(p)))
      /\ Failed(p) => RowsOf(p) = {}
      /\ \A i \in 1..Len(staged[p]) : staged[p][i] \notin store

\* A batch failed after staging two inserts while another batch is committed.
BatchAtomicityWitness ==
  \E p, o \in Reqs :
    /\ IsGenerate(p) /\ Failed(p) /\ Len(staged[p]) = 2 /\ RowsOf(p) = {}
    /\ IsGenerate(o) /\ Succeeded(o) /\ Cardinality(RowsOf(o)) = 3

(***************************************************************************)
(* C2  Connection release on every exit path: a request that has returned  *)
(* its response holds no open connection.                                  *)
(***************************************************************************)
ConnectionsReleased == \A p \in Reqs : Returned(p) => conn[p] # "open"

(***************************************************************************)
(* C3  Rollback on failure: once a batch is Failed, no open transaction    *)
(* with staged, uncommitted inserts of that batch remains.                 *)
(***************************************************************************)
RolledBackOnFailure ==
  \A p \in Reqs :
    (IsGenerate(p) /\ Failed(p)) => ~(tx[p] = "open" /\ staged[p] # <<>>)

(***************************************************************************)
(* C4  Single late commit: a batch commits at most once; the commit comes  *)
(* only after the solution call, the hint call and the staged insert have  *)
(* succeeded for every question, in order; and a success response, which   *)
(* carries one entry per question in order, comes only after the commit    *)
(* has succeeded.                                                          *)
(***************************************************************************)
\* The j-th event of a batch of n questions that runs without failure.
FullRunEvent(j, n) ==
  IF j = 1 THEN [ev |-> "connect", q |-> 0]
  ELSE IF j = 3 * n + 2 THEN [ev |-> "commit", q |-> 0]
  ELSE [ev |-> <<"solution", "hint", "insert">>[((j - 2) % 3) + 1], q |-> ((j - 2) \div 3) + 1]

SingleLateCommit ==
  \A p \in Reqs :
    IsGenerate(p) =>
      LET n == Len(NonBlankLines(RawText(p)))
          commits == Calls(p, "commit", 0)
      IN  /\ Cardinality(commits) <= 1
          /\ \A c \in commits :
               /\ c = 3 * n + 2
               /\ \A j \in 1..c :
                    /\ log[p][j].ev = FullRunEvent(j, n).ev
                    /\ log[p][j].q = FullRunEvent(j, n).q
                    /\ j < c => log[p][j].ok
          /\ response[p].status = "success" =>
               /\ log[p] # <<>>
               /\ log[p][Len(log[p])].ev = "commit"
               /\ log[p][Len(log[p])].ok
               /\ tx[p] = "committed"
               /\ Len(response[p].data) = n
               /\ \A i \in 1..n : response[p].data[i].question = NonBlankLines(RawText(p))[i]

\* A batch of three questions has committed and answered.
SingleLateCommitWitness ==
  \E p \in Reqs :
    IsGenerate(p) /\ Succeeded(p) /\ Len(response[p].data) = 3 /\ Len(log[p]) = 11

(***************************************************************************)
(* C5  Result correspondence: the data list of a successful batch has as   *)
(* many entries as the input has non-blank lines, and entry i carries the  *)
(* i-th non-blank line, trimmed; repeated question texts keep their own    *)
(* entries.                                                                *)
(***************************************************************************)
ResultCorrespondence ==
  \A p \in Reqs :
    (IsGenerate(p) /\ Succeeded(p)) =>
      LET lines == NonBlankLines(RawText(p))
          data == response[p].data
      IN  /\ Len(data) = Len(lines)
          /\ \A i \in 1..Len(lines) : data[i].question = lines[i]

\* A successful batch whose two questions have the same text.
ResultCorrespondenceWitness ==
  \E p \in Reqs :
    /\ IsGenerate(p) /\ Succeeded(p)
    /\ Len(response[p].data) = 2
    /\ response[p].data[1].question = response[p].data[2].question

(***************************************************************************)
(* C6  Question splitting: for a text that is not empty or whitespace-only *)
(* the splitter returns the text's line segments, trimmed, without the     *)
(* empty ones, in order: at least one question, each non-empty and without *)
(* leading or trailing whitespace; "Q1\n\nQ2\n  \nQ3" gives Q1, Q2, Q3.    *)
(***************************************************************************)
QuestionSplitting ==
  \A p \in Reqs :
    (IsGenerate(p) /\ request[p].question.tag = "str"
                   /\ ~BlankQuestion(request[p].question)) =>
      /\ response[p].code # 400
      /\ pc[p] # "done" =>
           /\ questions[p] = NonBlankLines(RawText(p))
           /\ Len(questions[p]) >= 1
           /\ \A i \in 1..Len(questions[p]) :
                LET q == questions[p][i] IN
                /\ q # <<>>
                /\ q[1] \notin Whitespace
                /\ q[Len(q)] \notin Whitespace
           /\ RawText(p) = ExampleText =>
                questions[p] = << <<"Q", "1">>, <<"Q", "2">>, <<"Q", "3">> >>

\* The example text has been split.
QuestionSplittingWitness ==
  \E p \in Reqs :
    /\ IsGenerate(p) /\ RawText(p) = ExampleText /\ pc[p] = "g_connect"
    /\ Len(questions[p]) = 3

(***************************************************************************)
(* C7  Fail-fast without retry: a question gets at most one solution       *)
(* request and at most one hint request; a failed generation call is the   *)
(* last thing the batch does, and the batch is then Failed; a batch has no *)
(* further transition exactly when it is Committed or Failed.              *)
(***************************************************************************)
Committed(p)   == tx[p] = "committed"
FailedState(p) == response[p].code \in {400, 500}

FailFast ==
  \A p \in Reqs :
    IsGenerate(p) =>
      /\ \A q \in 1..Len(NonBlankLines(RawText(p))) :
           /\ Cardinality(Calls(p, "solution", q)) <= 1
           /\ Cardinality(Calls(p, "hint", q)) <= 1
      /\ \A i \in GenerationCalls(p) :
           ~log[p][i].ok => (i = Len(log[p]) /\ FailedState(p) /\ ~Committed(p))
      /\ (~ENABLED Handler(p)) <=> (Committed(p) \/ FailedState(p))

\* The hint call of the second question failed after the first was staged.
FailFastWitness ==
  \E p \in Reqs :
    /\ IsGenerate(p) /\ Failed(p) /\ Len(staged[p]) = 1
    /\ log[p][Len(log[p])] = [ev |-> "hint", q |-> 2, ok |-> FALSE, kind |-> "status"]

(***************************************************************************)
(* C8  Shape mismatch is never fatal: a generation call that returns a     *)
(* success status with a body that is not of the expected shape does not   *)
(* fail the batch; the rendered body becomes the text and the batch goes   *)
(* on.                                                                     *)
(***************************************************************************)
ShapeMismatchNeverFatal ==
  \A p \in Reqs :
    \A i \in GenerationCalls(p) :
      log[p][i].kind \in {"mismatch", "notjson"} =>
        /\ log[p][i].ok
        /\ i = Len(log[p]) =>
             /\ pc[p] = (IF log[p][i].ev = "solution" THEN "g_hint" ELSE "g_insert")
             /\ log[p][i].ev = "solution" => sol_text[p] # <<>>
             /\ log[p][i].ev = "hint" => hint_text[p] # <<>>

\* What does hold: a reply that is JSON of another shape never fails the
\* batch, and its rendering becomes the text.
JsonMismatchFallsBack ==
  \A p \in Reqs :
    \A i \in GenerationCalls(p) :
      log[p][i].kind = "mismatch" =>
        /\ log[p][i].ok
        /\ i = Len(log[p]) =>
             /\ pc[p] = (IF log[p][i].ev = "solution" THEN "g_hint" ELSE "g_insert")
             /\ log[p][i].ev = "solution" => sol_text[p] = str_json(Mismatch)
             /\ log[p][i].ev = "hint" => hint_text[p] = str_json(Mismatch)

(***************************************************************************)
(* C9  Input errors have no side effects: a /generate-solution request     *)
(* whose question is missing, empty or whitespace-only, and an /extract    *)
(* request without a file, are rejected with no connection acquired, no    *)
(* generation call, no extraction attempt and no row of theirs persisted   *)
(* or staged.                                                              *)
(***************************************************************************)
Untouched(p) ==
  /\ Returned(p)
  /\ response[p].code = 400
  /\ log[p] = <<>>
  /\ conn[p] = "none" /\ tx[p] = "none"
  /\ staged[p] = <<>>
  /\ RowsOf(p) = {}

InputErrorsNoSideEffects ==
  \A p \in Reqs :
    /\ (IsGenerate(p) /\ BlankQuestion(request[p].question)) => Untouched(p)
    /\ (IsExtract(p) /\ ~request[p].file.present) => Untouched(p)

\* A whitespace-only question and a missing file have both been rejected.
InputErrorsNoSideEffectsWitness ==
  \E p, o \in Reqs :
    /\ IsGenerate(p) /\ request[p].question = Str(<<" ", "\n">>) /\ Returned(p)
    /\ IsExtract(o) /\ ~request[o].file.present /\ Returned(o)

(***************************************************************************)
(* C10  Direct-save validation is identical to batch validation: a         *)
(* question value that /generate-solution rejects as empty is rejected by  *)
(* /save-data with an error status, with no connection acquired and no     *)
(* row inserted.                                                           *)
(***************************************************************************)
SaveValidationIdentical ==
  \A p \in Reqs :
    (IsSave(p) /\ EmptyQuestionText(Get(request[p].question, Str(<<>>)))) =>
      /\ Returned(p)
      /\ response[p].status = "error"
      /\ log[p] = <<>>
      /\ conn[p] = "none"
      /\ staged[p] = <<>>
      /\ RowsOf(p) = {}

(***************************************************************************)
(* C11  Structured error responses: a /generate-solution request that      *)
(* succeeds ends with {status: "success", data}; one that does not,        *)
(* whatever the failure, ends with {status: "error", message} and no data  *)
(* field.                                                                  *)
(***************************************************************************)
StructuredResponses ==
  \A p \in Reqs :
    (IsGenerate(p) /\ Returned(p)) =>
      \/ /\ response[p].status = "success"
         /\ response[p].keys = {"status", "data"}
      \/ /\ response[p].status = "error"
         /\ "message" \in response[p].keys
         /\ "data" \notin response[p].keys

(***************************************************************************)
(* C12  Save/list round-trip: a listing made after a successful /save-data *)
(* contains a record with exactly the saved question, solution and hint    *)
(* (the empty text when the hint was omitted), under the id the store gave *)
(* it, and that id is greater than every id the table held before the      *)
(* insert.                                                                 *)
(***************************************************************************)
ListRoutes == {"get_solutions", "fetch_data"}
IsList(p)  == request[p].route \in ListRoutes

\* Thread o answers a listing in this step.
ListStep(o) == pc[o] = "idle" /\ pc'[o] = "done" /\ request'[o].route \in ListRoutes

\* The hint a saved body is to be stored with.
SavedHint(h) == IF h.tag = "missing" THEN Str(<<>>) ELSE h

\* The solution a saved body is to be stored with: NULL when omitted.
SavedSolution(v) == IF v.tag = "missing" THEN Null ELSE v

SaveListRoundTrip ==
  [][\A p, o \in Reqs :
       /\ (IsSave(p) /\ Succeeded(p) /\ ListStep(o) /\ response'[o].code = 200) =>
            \E i \in 1..Len(response'[o].data) :
              LET r == response'[o].data[i] IN
              /\ r.id \in {x.id : x \in RowsOf(p)}
              /\ r.question = request[p].question
              /\ r.solution = SavedSolution(request[p].solution)
              /\ r.hint = SavedHint(request[p].hint)
       /\ (IsSave(p) /\ pc[p] = "s_insert" /\ pc'[p] = "s_commit") =>
            /\ Len(staged'[p]) = 1
            /\ \A x \in store : staged'[p][1].id > x.id
     ]_vars

\* A body without hint was saved into a table that held rows, and a listing
\* made afterwards shows three records.
SaveListRoundTripWitness ==
  \E p, o \in Reqs :
    /\ IsSave(p) /\ Succeeded(p) /\ request[p].hint = Missing
    /\ IsList(o) /\ response[o].code = 200 /\ Len(response[o].data) = 3
    /\ \E i \in 1..3 : response[o].data[i].id \in {x.id : x \in RowsOf(p)}

(***************************************************************************)
(* C13  Idempotent read: a listing changes neither the table nor its       *)
(* counter nor any transaction, and a listing made when nothing has been   *)
(* committed since an earlier listing returns the same records in the same *)
(* order, whichever of the two routes each of them used.                   *)
(***************************************************************************)
IdsOf(rows) == {rows[i].id : i \in 1..Len(rows)}

InsertedIds ==
  {x.id : x \in store}
    \cup UNION {{staged[p][i].id : i \in 1..Len(staged[p])} : p \in Reqs}

\* rows are the records of the questions qs, ids ascending in question order.
InQuestionOrder(rows, qs) ==
  /\ Cardinality(rows) = Len(qs)
  /\ \E f \in [1..Len(qs) -> rows] :
       /\ \A i, j \in 1..Len(qs) : i < j => f[i].id < f[j].id
       /\ \A i \in 1..Len(qs) : f[i].question = Str(qs[i])

ListingAscending ==
  \A o \in Reqs :
    (IsList(o) /\ response[o].code = 200) =>
      \A i, j \in 1..Len(response[o].data) :
        i < j => response[o].data[i].id < response[o].data[j].id

BatchInQuestionOrder ==
  \A p \in Reqs :
    IsGenerate(p) =>
      /\ \A i, j \in 1..Len(staged[p]) : i < j => staged[p][i].id < staged[p][j].id
      /\ \A i \in 1..Len(staged[p]) :
           staged[p][i].question = Str(NonBlankLines(RawText(p))[i])
      /\ RowsOf(p) # {} => InQuestionOrder(RowsOf(p), NonBlankLines(RawText(p)))

LaterInsertLargerId ==
  \A p \in Reqs :
    Len(staged'[p]) = Len(staged[p]) + 1 =>
      \A id \in InsertedIds : staged'[p][Len(staged'[p])].id > id

RetrievalOrder ==
  /\ [](ListingAscending /\ BatchInQuestionOrder)
  /\ [][LaterInsertLargerId]_vars

\* A listing shows the three rows of a committed batch.
RetrievalOrderWitness ==
  \E p, o \in Reqs :
    /\ IsGenerate(p) /\ Cardinality(RowsOf(p)) = 3
    /\ IsList(o) /\ response[o].code = 200 /\ Len(response[o].data) >= 3

(***************************************************************************)
(* C15  Isolation of concurrent batches: in every reachable state the      *)
(* table, which is what a listing shows, holds of every batch either no    *)
(* row or, once the batch has committed, the complete set of its rows; a   *)
(* listing that was answered shows of each batch none or all of its rows   *)
(* and no uncommitted row; a failed batch has no row in the table, and the *)
(* step in which a batch fails leaves the table and every other request's  *)
(* connection, transaction, staged rows and position as they were.         *)
(***************************************************************************)
VisibleAreCommittedBatches ==
  \A p \in Reqs :
    IsGenerate(p) =>
      /\ RowsOf(p) # {} => Committed(p)
      /\ Committed(p) => InQuestionOrder(RowsOf(p), NonBlankLines(RawText(p)))
      /\ Failed(p) => RowsOf(p) = {}

ListingShowsWholeBatches ==
  \A o \in Reqs :
    (IsList(o) /\ response[o].code = 200) =>
      \A p \in Reqs :
        LET shown == {r \in RowsOf(p) : r.id \in IdsOf(response[o].data)}
        IN  /\ shown = {} \/ shown = RowsOf(p)
            /\ \A i \in 1..Len(staged[p]) : staged[p][i].id \notin IdsOf(response[o].data)

FailureLeavesOthersAlone ==
  \A p \in Reqs :
    (IsGenerate(p)' /\ pc[p] # "done" /\ Failed(p)') =>
      /\ store' = store
      /\ \A o \in Reqs \ {p} :
           /\ staged'[o] = staged[o] /\ conn'[o] = conn[o]
           /\ tx'[o] = tx[o] /\ pc'[o] = pc[o]

BatchIsolation ==
  /\ [](VisibleAreCommittedBatches /\ ListingShowsWholeBatches)
  /\ [][FailureLeavesOthersAlone]_vars

\* Two batches whose inserts interleaved: one failed with two rows staged,
\* the other committed its three rows, with an id of the failed one between.
BatchIsolationWitness ==
  \E p, o \in Reqs :
    /\ IsGenerate(p) /\ Failed(p) /\ Len(staged[p]) = 2
    /\ IsGenerate(o) /\ Succeeded(o) /\ Cardinality(RowsOf(o)) = 3
    /\ \E a, b \in RowsOf(o) : a.id < staged[p][1].id /\ staged[p][1].id < b.id

(***************************************************************************)
(* C16  Append-only store: no step of any request removes a committed row  *)
(* or changes its id, question, solution or hint; the table changes only   *)
(* in the successful commit of a request, by the rows that request had     *)
(* inserted; and no two rows have the same id.                             *)
(***************************************************************************)
\* Request p commits successfully in this step.
CommitStep(p) ==
  /\ pc[p] \in {"g_commit", "s_commit"} /\ pc'[p] = "done"
  /\ log'[p][Len(log'[p])].ev = "commit" /\ log'[p][Len(log'[p])].ok

AppendOnlyStep ==
  /\ store \subseteq store'
  /\ store' # store =>
       \E p \in Reqs :
         /\ CommitStep(p)
         /\ store' \ store = {staged[p][i] : i \in 1..Len(staged[p])}

UniqueIds == \A a, b \in store : a.id = b.id => a = b

AppendOnly == []UniqueIds /\ [][AppendOnlyStep]_vars

\* The table holds the row of a /save-data request and the rows of a batch.
AppendOnlyWitness ==
  \E p, o \in Reqs :
    /\ IsSave(p) /\ Cardinality(RowsOf(p)) = 1
    /\ IsGenerate(o) /\ Cardinality(RowsOf(o)) = 3

(***************************************************************************)
(* C17  Strict per-question sequencing: the history of a batch is, after   *)
(* the connect, solution call, hint call and insert of question 1, then of *)
(* question 2, and so on, each event coming only after the one before it   *)
(* succeeded; the rows staged are those of the inserts that succeeded; and *)
(* from the first call to the commit the batch has one connection and one  *)
(* open transaction.                                                       *)
(***************************************************************************)
InLoop(p) == pc[p] \in {"g_solution", "g_hint", "g_insert", "g_commit"}

PerQuestionSequencing ==
  \A p \in Reqs :
    IsGenerate(p) =>
      LET n == Len(NonBlankLines(RawText(p)))
          inserted == {j \in 1..Len(log[p]) : log[p][j].ev = "insert" /\ log[p][j].ok}
      IN  /\ \A j \in 1..Len(log[p]) :
               /\ log[p][j].ev = FullRunEvent(j, n).ev
               /\ log[p][j].q = FullRunEvent(j, n).q
               /\ j < Len(log[p]) => log[p][j].ok
          /\ ~Committed(p) => Len(staged[p]) = Cardinality(inserted)
          /\ \A i \in 1..Len(staged[p]) :
               \E j \in inserted : log[p][j].q = i /\ log[p][j - 1].ev = "hint"
                                   /\ log[p][j - 2].ev = "solution"
          /\ InLoop(p) => (tx[p] = "open" /\ conn[p] = "open")
          /\ Cardinality(Calls(p, "connect", 0)) <= 1

\* The batch is about to call for its third question with two rows staged.
PerQuestionSequencingWitness ==
  \E p \in Reqs :
    /\ IsGenerate(p) /\ pc[p] = "g_solution" /\ qi[p] = 3
    /\ Len(staged[p]) = 2 /\ Len(log[p]) = 7 /\ tx[p] = "open"

(***************************************************************************)
(* C18  PDF extraction concatenates pages in order: for a readable upload  *)
(* whose name ends in ".pdf" in any letter case the response carries the   *)
(* page texts joined in page order, trimmed at the two ends of the whole   *)
(* only (pages "A" and "B" give "AB"); and an /extract request leaves the  *)
(* table, its counter and every transaction as they were.                  *)
(***************************************************************************)
\* name ends in .pdf, .PDF, .Pdf, ...
IsPdfName(name) ==
  LET n == Len(name) IN
  /\ n >= 4
  /\ name[n - 3] = "."
  /\ name[n - 2] \in {"p", "P"}
  /\ name[n - 1] \in {"d", "D"}
  /\ name[n] \in {"f", "F"}

\* The pages one after the other.
RECURSIVE JoinPages(_)
JoinPages(pages) ==
  IF Len(pages) = 0 THEN <<>>
  ELSE JoinPages(SubSeq(pages, 1, Len(pages) - 1)) \o pages[Len(pages)]

PdfTextIsJoinedPages ==
  \A p \in Reqs :
    LET file == request[p].file IN
    (IsExtract(p) /\ file.present /\ file.readable /\ IsPdfName(file.filename)) =>
      /\ response[p].code = 200
      /\ response[p].keys = {"text"}
      /\ response[p].data = Trimmed(JoinPages(file.pages))
      /\ file.pages = << <<"A">>, <<"B">> >> => response[p].data = <<"A", "B">>
      /\ file.pages = << <<"B", " ">>, <<" ", "A">> >> =>
           response[p].data = <<"B", " ", " ", "A">>

ExtractLeavesStore ==
  \A p \in Reqs :
    (pc[p] = "idle" /\ IsExtract(p)') =>
      store' = store /\ nextId' = nextId /\ staged' = staged

PdfExtraction == []PdfTextIsJoinedPages /\ [][ExtractLeavesStore]_vars

\* x.PdF with the pages " A" and "B " was extracted while the table held rows.
PdfExtractionWitness ==
  \E p \in Reqs :
    /\ IsExtract(p) /\ Returned(p)
    /\ request[p].file.filename = <<"x", ".", "P", "d", "F">>
    /\ request[p].file.pages = << <<" ", "A">>, <<"B", " ">> >>
    /\ response[p].data = <<"A", "B">>
    /\ store # {}

(***************************************************************************)
(* C19  The connection comes before the first generation call: a batch     *)
(* that has made a generation call has a successful connect as the first   *)
(* event of its history; a batch whose connect failed has made no          *)
(* generation call and has answered with an error; and every generation    *)
(* call is made with the batch's connection and transaction open.          *)
(***************************************************************************)
ConnectFailed(p) == log[p] # <<>> /\ log[p][1].ev = "connect" /\ ~log[p][1].ok

ConnectedBeforeCalls ==
  \A p \in Reqs :
    IsGenerate(p) =>
      /\ GenerationCalls(p) # {} =>
           /\ log[p][1].ev = "connect" /\ log[p][1].ok
           /\ 1 \notin GenerationCalls(p)
      /\ ConnectFailed(p) =>
           /\ GenerationCalls(p) = {}
           /\ Len(log[p]) = 1
           /\ Returned(p)
           /\ response[p].code = 500 /\ response[p].status = "error"
           /\ staged[p] = <<>> /\ RowsOf(p) = {}

\* Request p makes a generation call in this step.
CallStep(p) ==
  /\ Len(log'[p]) = Len(log[p]) + 1
  /\ log'[p][Len(log'[p])].ev \in {"solution", "hint"}

CallsWhileOpen ==
  \A p \in Reqs : CallStep(p) => (conn[p] = "open" /\ tx[p] = "open")

ConnectionBeforeFirstCall == []ConnectedBeforeCalls /\ [][CallsWhileOpen]_vars

\* One batch could not connect and has answered; another is between its
\* solution call and its hint call.
ConnectionBeforeFirstCallWitness ==
  \E p, o \in Reqs :
    /\ IsGenerate(p) /\ ConnectFailed(p) /\ Failed(p)
    /\ IsGenerate(o) /\ pc[o] = "g_hint" /\ Cardinality(GenerationCalls(o)) = 1

(***************************************************************************)
(* C20  Response and store agree on success: the data list of a successful *)
(* batch has one entry per row the batch committed, and entry i carries    *)
(* the question, solution and hint of the batch's i-th row in id order.    *)
(***************************************************************************)
ResponseMatchesStore ==
  \A p \in Reqs :
    (IsGenerate(p) /\ Succeeded(p)) =>
      LET data == response[p].data
          n == Len(data)
      IN  /\ Cardinality(RowsOf(p)) = n
          /\ staged[p] = <<>>
          /\ \E f \in [1..n -> RowsOf(p)] :
               /\ \A i, j \in 1..n : i < j => f[i].id < f[j].id
               /\ \A i \in 1..n :
                    /\ f[i].question = Str(data[i].question)
                    /\ f[i].solution = Str(data[i].solution)
                    /\ f[i].hint = Str(data[i].hint)

\* A successful batch of three questions whose solutions differ from its hints.
ResponseMatchesStoreWitness ==
  \E p \in Reqs :
    /\ IsGenerate(p) /\ Succeeded(p)
    /\ Cardinality(RowsOf(p)) = 3
    /\ \A i \in 1..3 : response[p].data[i].solution # response[p].data[i].hint

====
